---- MODULE Spec2Model ----
(***************************************************************************)
(* A model of NGNX.DATA.LevelDbProxy (src/index.js, lines 200-509): the    *)
(* proxy that persists an NGN.DATA.Store or an NGN.DATA.Model to LevelDB.  *)
(*                                                                         *)
(* JavaScript values are tagged records, JavaScript strings are sequences  *)
(* of one-character strings, and the storage engine keeps raw character    *)
(* sequences under character-sequence keys in bytewise key order.          *)
(***************************************************************************)
EXTENDS Integers, Sequences, FiniteSets, TLC

(***************************************************************************)
(* Bounds of the model.                                                    *)
(***************************************************************************)
\* Most fields a record-mode host declares.
MaxFields == 2
\* Most records a collection-mode host holds.
MaxRecords == 2
\* Most save()/fetch() calls in one behaviour.
MaxOps == 2
\* Most init() calls in one behaviour.
MaxInits == 2
\* Most in-memory changes of the host in one behaviour.
MaxMutations == 1
\* Most live-synced changes of the host in one behaviour.
MaxLive == 1
\* Most entries of a dataset handed to parse.
MaxItems == 2

(***************************************************************************)
(* JavaScript values.                                                      *)
(***************************************************************************)
JNull == [t |-> "null"]
JUndefined == [t |-> "undefined"]
JBool(b) == [t |-> "boolean", b |-> b]
\* The number m / 10^e; e = 0 for an integer.  NaN is its own value.
JNum(m, e) == [t |-> "number", m |-> m, e |-> e]
JNaN == [t |-> "number", nan |-> TRUE]
JStr(s) == [t |-> "string", s |-> s]
JArr(xs) == [t |-> "array", xs |-> xs]
\* An object is the sequence of its own properties in insertion order.
JObj(kv) == [t |-> "object", kv |-> kv]
Prop(k, v) == [k |-> k, v |-> v]

\* typeof value
TypeOf(v) ==
  IF v.t \in {"null", "array", "object"} THEN "object" ELSE v.t

\* Array.isArray(value)
IsArray(v) == v.t = "array"

\* Object.keys(obj), obj.hasOwnProperty(k) and obj[k]
ObjKeys(o) == [i \in 1..Len(o.kv) |-> o.kv[i].k]
HasOwn(o, k) == o.t = "object" /\ \E i \in 1..Len(o.kv) : o.kv[i].k = k
ObjGet(o, k) ==
  IF HasOwn(o, k)
  THEN o.kv[CHOOSE i \in 1..Len(o.kv) : o.kv[i].k = k].v
  ELSE JUndefined

\* obj[k] = v: an existing property keeps its position, a new one is appended.
ObjSet(o, k, v) ==
  IF HasOwn(o, k)
  THEN JObj([i \in 1..Len(o.kv) |-> IF o.kv[i].k = k THEN Prop(k, v) ELSE o.kv[i]])
  ELSE JObj(Append(o.kv, Prop(k, v)))

(***************************************************************************)
(* Characters and strings.                                                 *)
(***************************************************************************)
\* The characters in use, in ascending byte order.
CharOrder ==
  << "\"", "#", ",", "-", ".",
     "0", "1", "2", "3", "4", "5", "6", "7", "8", "9", ":",
     "D", "I", "K", "L", "M", "N", "[", "]",
     "a", "b", "c", "d", "e", "f", "g", "i", "j", "l", "m", "n", "o", "p", "r",
     "s", "t", "u", "v", "x", "{", "}" >>

Code(c) == CHOOSE i \in 1..Len(CharOrder) : CharOrder[i] = c

DigitChars == <<"0", "1", "2", "3", "4", "5", "6", "7", "8", "9">>
IsDigit(c) == \E i \in 1..10 : DigitChars[i] = c
DigitVal(c) == (CHOOSE i \in 1..10 : DigitChars[i] = c) - 1

\* Bytewise order of two keys, as LevelDB's default comparator orders them.
RECURSIVE KeyLess(_, _)
KeyLess(a, b) ==
  IF a = <<>> THEN b # <<>>
  ELSE IF b = <<>> THEN FALSE
  ELSE IF Head(a) = Head(b) THEN KeyLess(Tail(a), Tail(b))
  ELSE Code(Head(a)) < Code(Head(b))

\* str.indexOf(sub): the first 0-based position of sub in str, or -1.
IndexOf(str, sub) ==
  LET hits == {i \in 1..(Len(str) - Len(sub) + 1) :
                 SubSeq(str, i, i + Len(sub) - 1) = sub}
  IN IF hits = {} THEN -1
     ELSE (CHOOSE i \in hits : \A j \in hits : i <= j) - 1

RECURSIVE Pow10(_)
Pow10(e) == IF e = 0 THEN 1 ELSE 10 * Pow10(e - 1)

\* String(n) for a natural number n.
RECURSIVE NatToStr(_)
NatToStr(n) ==
  IF n < 10 THEN <<DigitChars[n + 1]>>
  ELSE NatToStr(n \div 10) \o <<DigitChars[(n % 10) + 1]>>

\* The e fraction digits of n, zero-padded on the left.
RECURSIVE FracToStr(_, _)
FracToStr(n, e) ==
  IF e = 0 THEN <<>>
  ELSE FracToStr(n \div 10, e - 1) \o <<DigitChars[(n % 10) + 1]>>

Abs(n) == IF n < 0 THEN -n ELSE n

\* String(v) for a number.
NumToString(v) ==
  IF "nan" \in DOMAIN v THEN <<"N", "a", "N">>
  ELSE LET a == Abs(v.m)
           sign == IF v.m < 0 THEN <<"-">> ELSE <<>>
       IN IF v.e = 0 THEN sign \o NatToStr(a)
          ELSE sign \o NatToStr(a \div Pow10(v.e)) \o <<".">>
                    \o FracToStr(a % Pow10(v.e), v.e)

\* String(v) for the primitives the proxy writes without the json encoding.
JSString(v) ==
  CASE v.t = "string" -> v.s
    [] v.t = "number" -> NumToString(v)
    [] v.t = "boolean" -> IF v.b THEN <<"t", "r", "u", "e">>
                                 ELSE <<"f", "a", "l", "s", "e">>
    [] v.t = "null" -> <<"n", "u", "l", "l">>
    [] OTHER -> <<"[", "o", "b", "j", "e", "c", "t", "]">>

\* The length of the longest run of digits of s that starts at position i.
RECURSIVE DigitRun(_, _)
DigitRun(s, i) ==
  IF i <= Len(s) /\ IsDigit(s[i]) THEN 1 + DigitRun(s, i + 1) ELSE 0

\* The natural number the digits s[i..i+n-1] spell.
RECURSIVE DigitsVal(_, _, _)
DigitsVal(s, i, n) ==
  IF n = 0 THEN 0
  ELSE DigitsVal(s, i, n - 1) * 10 + DigitVal(s[i + n - 1])

\* m / 10^e with the trailing zeros of the fraction dropped.
RECURSIVE Normal(_, _)
Normal(m, e) ==
  IF e > 0 /\ m % 10 = 0 THEN Normal(m \div 10, e - 1) ELSE JNum(m, e)

\* parseInt(s, 10): an optional sign and the longest run of digits.
ParseInt(s) ==
  LET neg == Len(s) >= 1 /\ s[1] = "-"
      from == IF neg THEN 2 ELSE 1
      n == DigitRun(s, from)
  IN IF n = 0 THEN JNaN
     ELSE JNum((IF neg THEN -1 ELSE 1) * DigitsVal(s, from, n), 0)

\* parseFloat(s): sign, digits, and a fraction when a point and digits follow.
ParseFloat(s) ==
  LET neg == Len(s) >= 1 /\ s[1] = "-"
      from == IF neg THEN 2 ELSE 1
      n == DigitRun(s, from)
      dot == from + n
      hasDot == dot <= Len(s) /\ s[dot] = "."
      f == IF hasDot THEN DigitRun(s, dot + 1) ELSE 0
      sgn == IF neg THEN -1 ELSE 1
  IN IF n = 0 /\ f = 0 THEN JNaN
     ELSE Normal(sgn * (DigitsVal(s, from, n) * Pow10(f) + DigitsVal(s, dot + 1, f)), f)

(***************************************************************************)
(* The json value encoding: JSON.stringify and JSON.parse.  Strings of the *)
(* model hold no quote, backslash or control character, so none is escaped.*)
(***************************************************************************)
Quote == "\""

\* The concatenation of the sequences parts[1..n], separated by commas.
RECURSIVE JoinComma(_, _)
JoinComma(parts, n) ==
  IF n = 0 THEN <<>>
  ELSE IF n = 1 THEN parts[1]
  ELSE JoinComma(parts, n - 1) \o <<",">> \o parts[n]

RECURSIVE JSONStringify(_)
JSONStringify(v) ==
  CASE v.t = "null" -> <<"n", "u", "l", "l">>
    [] v.t = "boolean" -> JSString(v)
    [] v.t = "number" -> IF "nan" \in DOMAIN v THEN <<"n", "u", "l", "l">>
                                                 ELSE NumToString(v)
    [] v.t = "string" -> <<Quote>> \o v.s \o <<Quote>>
    [] v.t = "array" ->
         <<"[">> \o JoinComma([i \in 1..Len(v.xs) |-> JSONStringify(v.xs[i])],
                              Len(v.xs)) \o <<"]">>
    [] v.t = "object" ->
         <<"{">> \o JoinComma([i \in 1..Len(v.kv) |->
                                 <<Quote>> \o v.kv[i].k \o <<Quote, ":">>
                                   \o JSONStringify(v.kv[i].v)],
                              Len(v.kv)) \o <<"}">>

\* A parse result: ok, the value, and the position after it.
PFail == [ok |-> FALSE, v |-> JNull, i |-> 0]
POk(v, i) == [ok |-> TRUE, v |-> v, i |-> i]

\* Whether s holds the word w at position i.
HasWord(s, i, w) == i + Len(w) - 1 <= Len(s) /\ SubSeq(s, i, i + Len(w) - 1) = w

\* The position of the first quote of s at or after i, or 0.
RECURSIVE FindQuote(_, _)
FindQuote(s, i) ==
  IF i > Len(s) THEN 0
  ELSE IF s[i] = Quote THEN i
  ELSE FindQuote(s, i + 1)

\* A JSON number at position i: -? digits (. digits)?
ParseNumber(s, i) ==
  LET neg == s[i] = "-"
      from == IF neg THEN i + 1 ELSE i
      n == DigitRun(s, from)
      dot == from + n
      f == IF dot <= Len(s) /\ s[dot] = "." THEN DigitRun(s, dot + 1) ELSE 0
      sgn == IF neg THEN -1 ELSE 1
  IN IF n = 0 \/ (dot <= Len(s) /\ s[dot] = "." /\ f = 0) THEN PFail
     ELSE IF f = 0 THEN POk(JNum(sgn * DigitsVal(s, from, n), 0), dot)
     ELSE POk(Normal(sgn * (DigitsVal(s, from, n) * Pow10(f)
                              + DigitsVal(s, dot + 1, f)), f),
              dot + 1 + f)

\* A JSON string at position i (s[i] is the opening quote).
ParseString(s, i) ==
  LET j == FindQuote(s, i + 1)
  IN IF j = 0 THEN PFail ELSE POk(SubSeq(s, i + 1, j - 1), j + 1)

RECURSIVE ParseValue(_, _)
RECURSIVE ParseElements(_, _, _)
RECURSIVE ParseMembers(_, _, _)

\* The elements of an array after "[" or ",", up to and including "]".
ParseElements(s, i, acc) ==
  LET r == ParseValue(s, i)
  IN IF ~r.ok \/ r.i > Len(s) THEN PFail
     ELSE IF s[r.i] = "]" THEN POk(JArr(Append(acc, r.v)), r.i + 1)
     ELSE IF s[r.i] = "," THEN ParseElements(s, r.i + 1, Append(acc, r.v))
     ELSE PFail

\* The members of an object after "{" or ",", up to and including "}".
ParseMembers(s, i, acc) ==
  IF i > Len(s) \/ s[i] # Quote THEN PFail
  ELSE LET k == ParseString(s, i)
       IN IF ~k.ok \/ k.i > Len(s) \/ s[k.i] # ":" THEN PFail
          ELSE LET r == ParseValue(s, k.i + 1)
                   o == ObjSet(JObj(acc), k.v, r.v)
               IN IF ~r.ok \/ r.i > Len(s) THEN PFail
                  ELSE IF s[r.i] = "}" THEN POk(o, r.i + 1)
                  ELSE IF s[r.i] = "," THEN ParseMembers(s, r.i + 1, o.kv)
                  ELSE PFail

ParseValue(s, i) ==
  IF i > Len(s) THEN PFail
  ELSE CASE s[i] = Quote ->
              LET r == ParseString(s, i)
              IN IF r.ok THEN POk(JStr(r.v), r.i) ELSE PFail
         [] s[i] = "[" ->
              IF i + 1 <= Len(s) /\ s[i + 1] = "]" THEN POk(JArr(<<>>), i + 2)
              ELSE ParseElements(s, i + 1, <<>>)
         [] s[i] = "{" ->
              IF i + 1 <= Len(s) /\ s[i + 1] = "}" THEN POk(JObj(<<>>), i + 2)
              ELSE ParseMembers(s, i + 1, <<>>)
         [] s[i] = "t" ->
              IF HasWord(s, i, <<"t", "r", "u", "e">>)
              THEN POk(JBool(TRUE), i + 4) ELSE PFail
         [] s[i] = "f" ->
              IF HasWord(s, i, <<"f", "a", "l", "s", "e">>)
              THEN POk(JBool(FALSE), i + 5) ELSE PFail
         [] s[i] = "n" ->
              IF HasWord(s, i, <<"n", "u", "l", "l">>)
              THEN POk(JNull, i + 4) ELSE PFail
         [] s[i] = "-" \/ IsDigit(s[i]) -> ParseNumber(s, i)
         [] OTHER -> PFail

\* JSON.parse(s): ok is FALSE where JSON.parse throws a SyntaxError.
JSONParse(s) ==
  LET r == ParseValue(s, 1)
  IN IF r.ok /\ r.i = Len(s) + 1 THEN r ELSE PFail

(***************************************************************************)
(* The hosts: what NGN.DATA hands the proxy through NGN.inherit.           *)
(***************************************************************************)
\* The reserved literal that stands for null in storage.
Sentinel == <<"#", "N", "I", "L">>

\* The identity attribute of the records of a collection.
IdAttribute == <<"i", "d">>

FStr == <<"s", "t", "r">>
FNum == <<"n", "u", "m">>
FFlag == <<"f", "l", "a", "g">>
FList == <<"l", "i", "s", "t">>
FObj == <<"o", "b", "j">>
FPet == <<"p", "e", "t">>
FName == <<"n", "a", "m", "e">>

\* The fields a record may declare, in declaration order, and the
\* relationships (sub-records) among them.
FieldNames == <<FStr, FNum, FFlag, FList, FObj, FPet>>
JoinNames == {FPet}

\* The constructor a field is declared with (fields.<name>.type).
FieldCtor(f) ==
  CASE f = FStr -> "String"
    [] f = FNum -> "Number"
    [] f = FFlag -> "Boolean"
    [] f = FList -> "Array"
    [] f = FObj -> "Object"

Pet(n) == JObj(<<Prop(FName, JStr(n))>>)

\* The values a field may hold: values of its declared type, or null.
FieldValues(f) ==
  CASE f = FStr -> {JStr(<<"a">>), JStr(Sentinel), JStr(<<"x">> \o Sentinel), JNull}
    [] f = FNum -> {JNum(3, 0), JNum(-12, 0), JNum(15, 1), JNull}
    [] f = FFlag -> {JBool(TRUE), JBool(FALSE), JNull}
    [] f = FList -> {JArr(<<>>),
                     JArr(<<JStr(<<"a">>), JObj(<<Prop(<<"d">>, JBool(TRUE))>>)>>),
                     JNull}
    [] f = FObj -> {JObj(<<Prop(<<"s">>, JStr(<<"v">>))>>), JNull}
    [] f = FPet -> {Pet(<<"K">>), Pet(<<"D">>)}

\* The values the fields of a record of several fields are drawn from.
PlainValues(f) ==
  CASE f = FStr -> {JStr(<<"a">>), JNull}
    [] f = FNum -> {JNum(3, 0), JNull}
    [] f = FFlag -> {JBool(FALSE), JNull}
    [] f = FList -> {JArr(<<JStr(<<"a">>), JObj(<<Prop(<<"d">>, JBool(TRUE))>>)>>), JNull}
    [] f = FObj -> {JObj(<<Prop(<<"s">>, JStr(<<"v">>))>>), JNull}
    [] f = FPet -> {Pet(<<"K">>)}

\* record.data of a record that declares the fields FieldNames[i], i \in I.
RECURSIVE RecordsOver(_, _)
RecordsOver(I, from) ==
  IF from > Len(FieldNames) THEN {<<>>}
  ELSE LET rest == RecordsOver(I, from + 1)
           f == FieldNames[from]
       IN IF from \in I
          THEN {<<Prop(f, v)>> \o r :
                  v \in (IF Cardinality(I) = 1 THEN FieldValues(f) ELSE PlainValues(f)),
                  r \in rest}
          ELSE rest

ModelData ==
  UNION {{JObj(kv) : kv \in RecordsOver(I, 1)} :
           I \in {J \in SUBSET (1..Len(FieldNames)) : Cardinality(J) <= MaxFields}}

\* The identity values a record of a collection may carry (undefined: none).
RecordIds == {JUndefined, JNum(1, 0), JStr(<<"a">>)}

\* record.data of a record of a collection.
StoreRecord(id, n, withPet) ==
  JObj((IF id = JUndefined THEN <<>> ELSE <<Prop(IdAttribute, id)>>)
         \o <<Prop(FName, JStr(n))>>
         \o (IF withPet THEN <<Prop(FPet, Pet(<<"K">>))>> ELSE <<>>))

StoreRecords ==
  {StoreRecord(id, <<"D">>, TRUE) : id \in RecordIds}
    \cup {StoreRecord(id, <<"M">>, FALSE) : id \in RecordIds}

\* Whether no two records of a collection carry the same identity value.
DistinctIds(xs) ==
  \A i, j \in 1..Len(xs) :
    (i # j /\ HasOwn(xs[i], IdAttribute))
      => ObjGet(xs[i], IdAttribute) # ObjGet(xs[j], IdAttribute)

StoreData ==
  UNION {{JArr(xs) : xs \in {ys \in [1..n -> StoreRecords] : DistinctIds(ys)}} :
           n \in 0..MaxRecords}

Host(kind, data) == [kind |-> kind, data |-> data]
NoHost == Host("none", JUndefined)
Hosts == {Host("model", d) : d \in ModelData} \cup {Host("store", d) : d \in StoreData}

\* this.joins and this.fields of a record-mode host.
Joins(h) == {k \in {h.data.kv[i].k : i \in 1..Len(h.data.kv)} : k \in JoinNames}
Fields(h) == {k \in {h.data.kv[i].k : i \in 1..Len(h.data.kv)} : k \notin JoinNames}

(***************************************************************************)
(* The storage engine (levelup over leveldown), as the proxy uses it.      *)
(***************************************************************************)
EmptyDisk == <<>>

\* What is written for a value under a value encoding: JSON text under
\* json; String(value) under any other name, which the engine's codec takes
\* for its identity encoding.
EncodeValue(v, enc) == IF enc = "json" THEN JSONStringify(v) ELSE JSString(v)

\* What a read gives for a raw stored text under a value encoding: the
\* parsed JSON under json (ok is FALSE for an EncodingError), else the text.
DecodeValue(raw, enc) == IF enc = "json" THEN JSONParse(raw) ELSE POk(JStr(raw), 0)

\* One put of a batch.
Put(d, k, raw) == [x \in (DOMAIN d) \cup {k} |-> IF x = k THEN raw ELSE d[x]]

\* db.batch(ops): the puts of ops[1..n], applied in order.
RECURSIVE BatchWrite(_, _, _)
BatchWrite(d, ops, n) ==
  IF n = 0 THEN d
  ELSE Put(BatchWrite(d, ops, n - 1), ops[n].key,
           EncodeValue(ops[n].value, ops[n].valueEncoding))

\* The keys of the storage in the order a key or value stream emits them.
RECURSIVE SortKeys(_)
SortKeys(K) ==
  IF K = {} THEN <<>>
  ELSE LET m == CHOOSE k \in K : \A o \in K : o = k \/ KeyLess(k, o)
       IN <<m>> \o SortKeys(K \ {m})

StreamKeys(d) == SortKeys(DOMAIN d)

(***************************************************************************)
(* format, getFieldType and the value decoding of fetch.                   *)
(***************************************************************************)
\* NGN.coalesce(a, b): the first argument that is neither null nor undefined.
Coalesce(a, b) == IF a.t \in {"null", "undefined"} THEN b ELSE a

\* if (data)
Truthy(v) ==
  CASE v.t \in {"null", "undefined"} -> FALSE
    [] v.t = "boolean" -> v.b
    [] v.t = "string" -> v.s # <<>>
    [] v.t = "number" -> "nan" \notin DOMAIN v /\ v.m # 0
    [] OTHER -> TRUE

\* str.trim()
RECURSIVE Trim(_)
Trim(str) ==
  IF str # <<>> /\ Head(str) = " " THEN Trim(Tail(str))
  ELSE IF str # <<>> /\ str[Len(str)] = " " THEN Trim(SubSeq(str, 1, Len(str) - 1))
  ELSE str

PutOp(key, value, valueEncoding) ==
  [type |-> "put", key |-> key, value |-> value,
   keyEncoding |-> "string", valueEncoding |-> valueEncoding]

\* The key of the record at a 0-based index of a collection.
RecordKey(item, index) ==
  JSString(Coalesce(ObjGet(item, IdAttribute), JNum(index, 0)))

\* The array branch of format: one put per record, the record as its value.
FormatArray(data) ==
  [i \in 1..Len(data.xs) |-> PutOp(RecordKey(data.xs[i], i - 1), data.xs[i], "json")]

\* The value encoding format gives a field value.
FieldEncoding(v) ==
  IF IsArray(v) THEN "json"
  ELSE IF TypeOf(v) = "object" THEN "json"
  ELSE TypeOf(v)

\* The object branch of format: one put per own property.
FormatObject(data) ==
  [i \in 1..Len(data.kv) |->
     PutOp(Trim(data.kv[i].k),
           IF data.kv[i].v = JNull THEN JStr(Sentinel) ELSE data.kv[i].v,
           FieldEncoding(data.kv[i].v))]

Format(data) ==
  IF ~Truthy(data) THEN <<>>
  ELSE IF IsArray(data) THEN FormatArray(data)
  ELSE FormatObject(data)

\* The name the pattern /function\s(.*)\(\).*/ takes out of the source text
\* of a constructor, in lower case.
LowerName(ctor) ==
  CASE ctor = "String" -> "string"
    [] ctor = "Number" -> "number"
    [] ctor = "Boolean" -> "boolean"
    [] ctor = "Array" -> "array"
    [] ctor = "Object" -> "object"

\* getFieldType(field): err is TRUE where this.fields[field] is undefined and
\* reading its type throws a TypeError.
GetFieldType(h, field) ==
  IF field \notin Joins(h)
  THEN IF field \notin Fields(h)
       THEN [err |-> TRUE, type |-> "json"]
       ELSE LET type == LowerName(FieldCtor(field))
            IN [err |-> FALSE, type |-> IF type = "array" THEN "json" ELSE type]
  ELSE [err |-> FALSE, type |-> "json"]

\* The decoding of a value a get returned for a key typed `type`.
FetchDecode(h, key, type, value) ==
  IF type \in {"string", "number", "boolean"}
  THEN LET type2 == GetFieldType(h, key).type
       IN IF IndexOf(value.s, Sentinel) >= 0 THEN JNull
          ELSE IF type2 = "boolean" THEN JBool(value.s = <<"t", "r", "u", "e">>)
          ELSE IF type2 = "number"
               THEN IF IndexOf(value.s, <<".">>) < 0 THEN ParseInt(value.s)
                                                     ELSE ParseFloat(value.s)
          ELSE value
  ELSE value

\* host.load(data): every field data names takes data's value.
RECURSIVE LoadData(_, _, _)
LoadData(o, data, n) ==
  IF n = 0 THEN o
  ELSE ObjSet(LoadData(o, data, n - 1), data.kv[n].k, data.kv[n].v)

Load(h, data) == Host(h.kind, LoadData(h.data, data, Len(data.kv)))

ReloadMerge(h, dataset) == Host(h.kind, JArr(h.data.xs \o dataset))

\* host.reload(dataset): the records of the collection are replaced.
Reload(h, dataset) == Host(h.kind, JArr(dataset))

(***************************************************************************)
(* The state.                                                              *)
(***************************************************************************)
VARIABLES
  live,       \* whether live sync is enabled on the host
  liveOp,     \* the storage operation of the last live change of the host
  config,     \* the argument the constructor is called with (undefined after it)
  directory,  \* this.directory: the storage location ("none": no proxy instance)
  exists,     \* whether the directory of the storage location exists
  writer,     \* the type of the save that wrote what the storage holds ("none")
  type,       \* this.type: "null" until init, then "store" or "model"
  types,      \* the values init has given this.type, oldest first
  host,       \* the host NGN.inherit attached: its kind and its data
  disk,       \* the content of the storage location: key -> raw text
  handles,    \* the handles the operation opened: state and close() calls
  pc,         \* where the pending save or fetch stands ("idle": none pending)
  op,         \* the pending or last operation: its name and its callback
  pending,    \* save: the operations of the batch that was issued
  pos,        \* fetch: how many entries the key or value stream has emitted
  keys,       \* record-mode fetch: the keys enumerated, then with their types
  dataset,    \* collection-mode fetch: the values the stream emitted
  data,       \* record-mode fetch: the mapping the gets fill
  idx,        \* record-mode fetch: the task that is running
  h0,         \* record-mode fetch: the handle of the key enumeration
  cbCount,    \* how often the callback of the operation was invoked
  saveEvents, \* how often the operation emitted 'save'
  loads,      \* how often the operation invoked load or reload
  fault,      \* whether a storage call of the operation failed
  err,        \* the error the operation raised ("none": none)
  host0,      \* the host as it was when the operation was called
  snap,       \* the last completed save: the data it wrote, the disk after it
  prev,       \* the completed save before that one
  dirty,      \* whether the host was changed in memory since the last entry of log
  log,        \* the operations that completed, oldest first
  parsed,     \* what the last call of parse built (set: whether it was called)
  nOps, nInits, nMuts, nLive

vars == <<live, liveOp, config, directory, exists, writer, type, types, host, disk, handles, pc, op, pending, pos, keys, dataset, data,
          idx, h0, cbCount, saveEvents, loads, fault, err, host0, snap, prev,
          dirty, log, parsed, nOps, nInits, nMuts, nLive>>

liveVars == <<live, liveOp>>
ctorVars == <<config, directory, exists>>
opVars == <<pending, pos, keys, dataset, data, idx, h0>>
obsVars == <<cbCount, saveEvents, loads, fault, err>>
histVars == <<snap, prev, dirty, log>>
countVars == <<nOps, nInits, nMuts, nLive>>

NoSnap == [set |-> FALSE]
Snap(d, k, ok) == [set |-> TRUE, data |-> d, disk |-> k, ok |-> ok]

NoOp == [name |-> "none", cb |-> FALSE]
NoLive == [kind |-> "none"]
NoParse == [set |-> FALSE]

\* A handle levelup(directory) returned, and the handles not yet closed.
OpenHandle == [st |-> "open", closes |-> 0]

\* db.close(): an open handle starts closing; closing a handle that is
\* closing or closed does nothing.
CloseHandle(hs, i) ==
  [hs EXCEPT ![i] = [st |-> IF @.st = "open" THEN "closing" ELSE @.st,
                     closes |-> @.closes + 1]]

\* The hosts a later init() attaches, and what the storage location may hold
\* when the proxy is constructed: nothing, or what a save of one of them left.
SampleHosts ==
  { Host("store", JArr(<<StoreRecord(JUndefined, <<"D">>, TRUE)>>)),
    Host("model", JObj(<<Prop(FStr, JStr(<<"a">>))>>)),
    Host("model", JObj(<<Prop(FList, JArr(<<>>))>>)) }

SavedDisk(h) == BatchWrite(EmptyDisk, Format(h.data), Len(Format(h.data)))

InitDisks == {EmptyDisk} \cup {SavedDisk(h) : h \in SampleHosts}

\* The initial contents a save of the given type left ("none": none did).
DisksOf(kind) ==
  IF kind = "none" THEN {EmptyDisk}
  ELSE {SavedDisk(h) : h \in {g \in SampleHosts : g.kind = kind}}

\* The arguments the constructor is called with.
KDirectory == <<"d", "i", "r", "e", "c", "t", "o", "r", "y">>
Dir == <<"d", "b">>
Configs ==
  {JUndefined, JNull, JStr(<<>>), JStr(Dir), JObj(<<>>),
   JObj(<<Prop(KDirectory, JStr(<<>>))>>), JObj(<<Prop(KDirectory, JStr(Dir))>>)}

Init ==
  /\ live = FALSE
  /\ liveOp = NoLive
  /\ config \in Configs
  /\ directory = "none"
  /\ exists \in BOOLEAN
  /\ ~exists => disk = EmptyDisk
  /\ type = "null"
  /\ types = <<>>
  /\ host = NoHost
  /\ disk \in InitDisks
  /\ writer \in {"none", "store", "model"}
  /\ disk \in DisksOf(writer)
  /\ handles = <<>>
  /\ pc = "new"
  /\ op = NoOp
  /\ pending = <<>>
  /\ pos = 0
  /\ keys = <<>>
  /\ dataset = <<>>
  /\ data = JObj(<<>>)
  /\ idx = 0
  /\ h0 = 0
  /\ cbCount = 0
  /\ saveEvents = 0
  /\ loads = 0
  /\ fault = FALSE
  /\ err = "none"
  /\ host0 = NoHost
  /\ snap = NoSnap
  /\ prev = NoSnap
  /\ dirty = FALSE
  /\ log = <<>>
  /\ nOps = 0
  /\ nInits = 0
  /\ nMuts = 0
  /\ nLive = 0
  /\ parsed = NoParse

(***************************************************************************)
(* The constructor.                                                        *)
(***************************************************************************)
\* An error thrown and not caught: nothing of the program runs after it.
Raise(e) ==
  /\ pc' = "raised"
  /\ err' = e

ConfigError == "Error: No database configuration detected."

\* A constructor that does not take a string for the directory.
NormalConfigNoString(cfg) == IF Truthy(cfg) THEN cfg ELSE JObj(<<>>)

\* config = config || {}; a string config becomes {directory: config}.
NormalConfig(cfg) ==
  LET c == IF Truthy(cfg) THEN cfg ELSE JObj(<<>>)
  IN IF TypeOf(c) = "string" THEN JObj(<<Prop(KDirectory, c)>>) ELSE c

\* new LevelDbProxy(config): throws when the configuration names no
\* directory; a directory that cannot be read is only warned about.
Construct ==
  /\ pc = "new"
  /\ LET c == NormalConfig(config)
     IN IF ~Truthy(ObjGet(c, KDirectory))
        THEN /\ Raise(ConfigError)
             /\ directory' = directory
        ELSE /\ pc' = "idle"
             /\ err' = err
             /\ directory' = ObjGet(c, KDirectory).s
  /\ config' = JUndefined
  /\ UNCHANGED <<parsed, liveVars, exists, writer, type, types, host, disk, handles, op, opVars, cbCount, saveEvents,
                 loads, fault, host0, histVars, countVars>>

(***************************************************************************)
(* init and the in-memory changes of the host.                             *)
(***************************************************************************)
\* What the state keeps of the last operation is dropped: between two
\* operations it is of no effect on the program.
Forget ==
  /\ op' = NoOp
  /\ handles' = <<>>
  /\ pending' = <<>>
  /\ pos' = 0
  /\ keys' = <<>>
  /\ dataset' = <<>>
  /\ data' = JObj(<<>>)
  /\ idx' = 0
  /\ h0' = 0
  /\ cbCount' = 0
  /\ saveEvents' = 0
  /\ loads' = 0
  /\ fault' = FALSE
  /\ err' = "none"
  /\ host0' = NoHost
  /\ parsed' = NoParse

\* A type that does not look at the host.
TypeOfHostModel(h) == "model"

\* datastore instanceof NGN.DATA.Store ? 'store' : 'model'
TypeOfHost(h) == IF h.kind = "store" THEN "store" ELSE "model"

\* init(datastore)
InitProxy(h) ==
  /\ pc = "idle"
  /\ ~live
  /\ nInits < MaxInits
  /\ h \in (IF nInits = 0 THEN Hosts ELSE SampleHosts)
  /\ type' = TypeOfHost(h)
  /\ types' = Append(types, type')
  /\ host' = h
  /\ snap' = NoSnap
  /\ prev' = NoSnap
  /\ dirty' = FALSE
  /\ log' = <<>>
  /\ nInits' = nInits + 1
  /\ Forget
  /\ UNCHANGED <<liveVars, ctorVars, writer, disk, pc, nOps, nMuts, nLive>>

\* The hosts one in-memory change leads to: a field of the record set to
\* another value; a record of the collection renamed, removed or added.
Mutations(h) ==
  IF h.kind = "none" THEN {}
  ELSE IF h.kind = "model"
  THEN UNION {{Host("model", ObjSet(h.data, h.data.kv[i].k, v)) :
                 v \in FieldValues(h.data.kv[i].k)} : i \in 1..Len(h.data.kv)}
  ELSE {Host("store", JArr(xs)) : xs \in
          {[h.data.xs EXCEPT ![i] = ObjSet(@, FName, JStr(n))] :
             i \in {j \in 1..Len(h.data.xs) : h.data.xs[j].t = "object"},
             n \in {<<"D">>, <<"M">>}}
          \cup {SubSeq(h.data.xs, 1, i - 1) \o SubSeq(h.data.xs, i + 1, Len(h.data.xs)) :
                  i \in 1..Len(h.data.xs)}
          \cup {Append(h.data.xs, r) : r \in
                  {q \in StoreRecords : Len(h.data.xs) < MaxRecords
                                          /\ ~HasOwn(q, IdAttribute)}}}

Mutate(h) ==
  /\ pc = "idle"
  /\ type # "null"
  /\ ~live
  /\ log # <<>>
  /\ nOps < MaxOps
  /\ nMuts < MaxMutations
  /\ h \in Mutations(host)
  /\ h # host
  /\ host' = h
  /\ dirty' = TRUE
  /\ nMuts' = nMuts + 1
  /\ Forget
  /\ UNCHANGED <<liveVars, ctorVars, writer, type, types, disk, pc, snap, prev, log, nOps, nInits, nLive>>

(***************************************************************************)
(* Live sync: every change of the host is written to the storage at once.  *)
(***************************************************************************)
\* The fields that are changed while live sync is enabled.
LiveFields == {FStr}
\* The values they are set to, with and without live sync seeing the change.
LiveValues == {JStr(<<"a">>), JStr(Sentinel)}
SilentValues == {JNull}

\* enableLiveSync()
EnableLiveSync ==
  /\ pc = "idle"
  /\ type # "null"
  /\ ~live
  /\ nOps = MaxOps - 1
  /\ nLive < MaxLive
  /\ live' = TRUE
  /\ UNCHANGED <<parsed, liveOp, ctorVars, writer, type, types, host, disk, handles, pc, op,
                 opVars, obsVars, host0, histVars, countVars>>

DelNone(d, k) == d

\* db.del(key)
Del(d, k) == [x \in (DOMAIN d) \ {k} |-> d[x]]

RECURSIVE DelAll(_, _)
DelAll(d, K) ==
  IF K = {} THEN d
  ELSE LET k == CHOOSE x \in K : TRUE IN DelAll(Del(d, k), K \ {k})

\* The write of one field and the delete of keys, as issued.
LivePut(k, v) ==
  [kind |-> "put", done |-> FALSE, field |-> k, key |-> Trim(k), value |-> v,
   ops |-> FormatObject(JObj(<<Prop(k, v)>>))]
LiveDel(K) ==
  [kind |-> "del", done |-> FALSE, keys |-> K, had |-> K \cap DOMAIN disk]

\* A live change of the host h: the storage operation o is issued.
LiveIssue(h, o) ==
  /\ pc = "idle"
  /\ live
  /\ nOps < MaxOps
  /\ nLive < MaxLive
  /\ host' = h
  /\ liveOp' = o
  /\ pc' = "live"
  /\ dirty' = TRUE
  /\ nLive' = nLive + 1
  /\ Forget
  /\ UNCHANGED <<live, ctorVars, writer, type, types, disk, snap, prev, log, nOps,
                 nInits, nMuts>>

\* record.field = value
LiveSet(k, v) ==
  /\ type = "model"
  /\ HasOwn(host.data, k)
  /\ ObjGet(host.data, k) # v
  /\ LiveIssue(Host("model", ObjSet(host.data, k, v)), LivePut(k, v))

\* record.removeField(field)
LiveRemoveField(k) ==
  /\ type = "model"
  /\ HasOwn(host.data, k)
  /\ LiveIssue(Host("model", JObj(SelectSeq(host.data.kv, LAMBDA p : p.k # k))),
               LiveDel({Trim(k)}))

\* store.remove(record)
LiveRemoveRecord(i) ==
  /\ type = "store"
  /\ i \in 1..Len(host.data.xs)
  /\ LiveIssue(Host("store", JArr(SubSeq(host.data.xs, 1, i - 1)
                                    \o SubSeq(host.data.xs, i + 1, Len(host.data.xs)))),
               LiveDel({RecordKey(host.data.xs[i], i - 1)}))

\* store.clear()
LiveClear ==
  /\ type = "store"
  /\ host.data.xs # <<>>
  /\ LiveIssue(Host("store", JArr(<<>>)),
               LiveDel({RecordKey(host.data.xs[i], i - 1) : i \in 1..Len(host.data.xs)}))

\* record.setSilent(field, value): a change that live sync does not see.
SetSilent(k, v) ==
  /\ pc = "idle"
  /\ type = "model"
  /\ live
  /\ nOps < MaxOps
  /\ nMuts < MaxMutations
  /\ HasOwn(host.data, k)
  /\ ObjGet(host.data, k) # v
  /\ host' = Host("model", ObjSet(host.data, k, v))
  /\ dirty' = TRUE
  /\ nMuts' = nMuts + 1
  /\ Forget
  /\ UNCHANGED <<liveVars, ctorVars, writer, type, types, disk, pc, snap, prev, log, nOps,
                 nInits, nLive>>

\* The storage operation completed: live.update or live.delete is emitted.
LiveDone ==
  /\ pc = "live"
  /\ disk' = IF liveOp.kind = "put" THEN BatchWrite(disk, liveOp.ops, Len(liveOp.ops))
             ELSE DelAll(disk, liveOp.keys)
  /\ liveOp' = [liveOp EXCEPT !.done = TRUE]
  /\ exists' = TRUE
  /\ pc' = "idle"
  /\ UNCHANGED <<parsed, live, config, directory, writer, type, types, host, handles, op, opVars,
                 obsVars, host0, histVars, countVars>>

\* The storage operation failed: the error is raised.
LiveFailed ==
  /\ pc = "live"
  /\ fault' = TRUE
  /\ Raise("StorageError")
  /\ UNCHANGED <<parsed, liveVars, ctorVars, writer, type, types, host, disk, handles, op, opVars,
                 cbCount, saveEvents, loads, host0, histVars, countVars>>

(***************************************************************************)
(* save.                                                                   *)
(***************************************************************************)
\* What every call of save or fetch resets.
Begin(name, cb) ==
  /\ pc = "idle"
  /\ type # "null"
  /\ nOps < MaxOps
  /\ op' = [name |-> name, cb |-> cb]
  /\ cbCount' = 0
  /\ saveEvents' = 0
  /\ loads' = 0
  /\ fault' = FALSE
  /\ err' = "none"
  /\ host0' = host
  /\ parsed' = NoParse
  /\ nOps' = nOps + 1

\* An operation completed: its callback timer has run.
Complete ==
  /\ pc' = "idle"
  /\ log' = Append(log, [name |-> op.name, ok |-> ~fault, mutated |-> dirty])
  /\ dirty' = FALSE

\* The errors the proxy's own code raises.
CallbackError == "TypeError: callback argument must be a function"
NoFieldError == "TypeError: cannot read property type of undefined"

\* setTimeout(callback, 10) throws a TypeError when callback is no function.
SetTimeout(cb, next) ==
  IF cb THEN pc' = next /\ err' = err ELSE Raise(CallbackError)

\* save(callback): leveldown.destroy(this.directory, ...) is issued.
Save(cb) ==
  /\ Begin("save", cb)
  /\ pc' = "save_destroy"
  /\ liveOp' = NoLive
  /\ UNCHANGED <<live, ctorVars, writer, type, types, host, disk, handles, opVars, histVars, nInits, nMuts, nLive>>

\* A save that writes only a host changed since the last save.
SaveDestroyedIncremental ==
  /\ pc = "save_destroy"
  /\ disk' = EmptyDisk
  /\ handles' = <<OpenHandle>>
  /\ pending' = IF snap.set /\ snap.data = host.data THEN <<>> ELSE Format(host.data)
  /\ pc' = "save_batch"
  /\ exists' = TRUE
  /\ writer' = "none"
  /\ UNCHANGED <<parsed, liveVars, config, directory, type, types, host, op, pos, keys, dataset, data, idx, h0, obsVars, host0,
                 histVars, countVars>>

\* A save that leaves what the location holds in place.
SaveDestroyedKeep ==
  /\ pc = "save_destroy"
  /\ disk' = disk
  /\ handles' = <<OpenHandle>>
  /\ pending' = Format(host.data)
  /\ pc' = "save_batch"
  /\ exists' = TRUE
  /\ writer' = "none"
  /\ UNCHANGED <<parsed, liveVars, config, directory, type, types, host, op, pos, keys, dataset, data, idx, h0, obsVars, host0,
                 histVars, countVars>>

\* destroy completed: op() opens a handle and db.batch(format(data)) is issued.
SaveDestroyed ==
  /\ pc = "save_destroy"
  /\ disk' = EmptyDisk
  /\ handles' = <<OpenHandle>>
  /\ pending' = Format(host.data)
  /\ pc' = "save_batch"
  /\ exists' = TRUE
  /\ writer' = "none"
  /\ UNCHANGED <<parsed, liveVars, config, directory, type, types, host, op, pos, keys, dataset, data, idx, h0, obsVars, host0,
                 histVars, countVars>>

BatchCallbackNoClose ==
  /\ handles' = handles
  /\ pc' = "save_timer"

\* The callback of the batch: done(), then the timer of the completion.  It
\* takes no argument, so an error of the batch is not looked at.
BatchCallback ==
  /\ handles' = CloseHandle(handles, Len(handles))
  /\ pc' = "save_timer"

\* The batch was written.
SaveBatchDone ==
  /\ pc = "save_batch"
  /\ disk' = BatchWrite(disk, pending, Len(pending))
  /\ BatchCallback
  /\ writer' = type
  /\ UNCHANGED <<parsed, liveVars, ctorVars, type, types, host, op, opVars, obsVars, host0, histVars, countVars>>

\* The batch failed: nothing of it is written.
SaveBatchFailed ==
  /\ pc = "save_batch"
  /\ fault' = TRUE
  /\ BatchCallback
  /\ UNCHANGED <<parsed, liveVars, ctorVars, writer, type, types, host, disk, op, opVars, cbCount, saveEvents, loads, err,
                 host0, histVars, countVars>>

\* The timer of save: emit('save'), then callback && callback().
SaveTimer ==
  /\ pc = "save_timer"
  /\ saveEvents' = saveEvents + 1
  /\ cbCount' = IF op.cb THEN cbCount + 1 ELSE cbCount
  /\ prev' = snap
  /\ snap' = Snap(host.data, disk, ~fault)
  /\ Complete
  /\ UNCHANGED <<parsed, liveVars, ctorVars, writer, type, types, host, disk, handles, op, opVars, loads, fault, err, host0,
                 countVars>>

\* A close() that was issued completes.
CloseDone(i) ==
  /\ pc # "raised"
  /\ i \in 1..Len(handles)
  /\ handles[i].st = "closing"
  /\ handles' = [handles EXCEPT ![i].st = "closed"]
  /\ UNCHANGED <<parsed, liveVars, ctorVars, writer, type, types, host, disk, pc, op, opVars, obsVars, host0, histVars, countVars>>

(***************************************************************************)
(* fetch, collection mode.                                                 *)
(***************************************************************************)
\* fetch(callback) with type 'store': op() opens a handle and the value
\* stream is created.
FetchStore(cb) ==
  /\ type = "store"
  /\ Begin("fetch", cb)
  /\ handles' = <<OpenHandle>>
  /\ dataset' = <<>>
  /\ pos' = 0
  /\ pc' = "fs_stream"
  /\ exists' = TRUE
  /\ UNCHANGED <<liveVars, config, directory, writer, type, types, host, disk, pending, keys, data, idx, h0, histVars, nInits, nMuts, nLive>>

\* 'data': the next value, decoded as json, is pushed to the dataset.
FetchStoreData ==
  /\ pc = "fs_stream"
  /\ pos < Len(StreamKeys(disk))
  /\ LET r == DecodeValue(disk[StreamKeys(disk)[pos + 1]], "json")
     IN /\ r.ok
        /\ dataset' = Append(dataset, r.v)
  /\ pos' = pos + 1
  /\ UNCHANGED <<parsed, liveVars, ctorVars, writer, type, types, host, disk, handles, pc, op, pending, keys, data, idx, h0,
                 obsVars, host0, histVars, countVars>>

\* An 'error' handler that reports the error and lets the stream go on.
StreamErrorReported ==
  /\ fault' = TRUE
  /\ pc' = pc
  /\ err' = err

\* 'error': the handler throws the error.
StreamErrorHandler ==
  /\ fault' = TRUE
  /\ Raise("StorageError")

\* The stream fails: the next value is no JSON text, or the engine fails.
FetchStoreError ==
  /\ pc = "fs_stream"
  /\ StreamErrorHandler
  /\ UNCHANGED <<parsed, liveVars, ctorVars, writer, type, types, host, disk, handles, op, opVars, cbCount, saveEvents, loads,
                 host0, histVars, countVars>>

\* 'end': reload(dataset), done(), setTimeout(callback, 10).
FetchStoreEnd ==
  /\ pc = "fs_stream"
  /\ pos = Len(StreamKeys(disk))
  /\ host' = Reload(host, dataset)
  /\ loads' = loads + 1
  /\ handles' = CloseHandle(handles, Len(handles))
  /\ SetTimeout(op.cb, "fs_timer")
  /\ UNCHANGED <<parsed, liveVars, ctorVars, writer, type, types, disk, op, opVars, cbCount, saveEvents, fault, host0, histVars,
                 countVars>>

\* The timer of fetch: callback().
FetchTimer ==
  /\ pc \in {"fs_timer", "fm_timer"}
  /\ cbCount' = cbCount + 1
  /\ Complete
  /\ UNCHANGED <<parsed, liveVars, ctorVars, writer, type, types, host, disk, handles, op, opVars, saveEvents, loads, fault, err,
                 host0, snap, prev, countVars>>

(***************************************************************************)
(* fetch, record mode.                                                     *)
(***************************************************************************)
Untyped(k) == [key |-> k, type |-> "untyped"]

\* fetch(callback) with a type other than 'store': op() opens a handle and
\* the key stream is created.
FetchModel(cb) ==
  /\ type # "store"
  /\ Begin("fetch", cb)
  /\ handles' = <<OpenHandle>>
  /\ h0' = 1
  /\ keys' = <<>>
  /\ data' = JObj(<<>>)
  /\ idx' = 0
  /\ pos' = 0
  /\ pc' = "fm_keys"
  /\ exists' = TRUE
  /\ UNCHANGED <<liveVars, config, directory, writer, type, types, host, disk, pending, dataset, histVars, nInits, nMuts, nLive>>

\* 'data': the next key is pushed.
FetchModelKey ==
  /\ pc = "fm_keys"
  /\ pos < Len(StreamKeys(disk))
  /\ keys' = Append(keys, Untyped(StreamKeys(disk)[pos + 1]))
  /\ pos' = pos + 1
  /\ UNCHANGED <<parsed, liveVars, ctorVars, writer, type, types, host, disk, handles, pc, op, pending, dataset, data, idx, h0,
                 obsVars, host0, histVars, countVars>>

\* The key stream fails.
FetchModelKeysError ==
  /\ pc = "fm_keys"
  /\ StreamErrorHandler
  /\ UNCHANGED <<parsed, liveVars, ctorVars, writer, type, types, host, disk, handles, op, opVars, cbCount, saveEvents, loads,
                 host0, histVars, countVars>>

\* 'end': every key gets its type, one task per key is queued, and a timer
\* is set for the run.  getFieldType throws for a key that is no field.
FetchModelKeysEnd ==
  /\ pc = "fm_keys"
  /\ pos = Len(StreamKeys(disk))
  /\ IF \E i \in 1..Len(keys) : GetFieldType(host, keys[i].key).err
     THEN /\ Raise(NoFieldError)
          /\ keys' = keys
     ELSE /\ keys' = [i \in 1..Len(keys) |->
                        [key |-> keys[i].key,
                         type |-> GetFieldType(host, keys[i].key).type]]
          /\ pc' = "fm_run"
          /\ err' = err
  /\ UNCHANGED <<parsed, liveVars, ctorVars, writer, type, types, host, disk, handles, op, pending, pos, dataset, data, idx, h0,
                 cbCount, saveEvents, loads, fault, host0, histVars, countVars>>

\* A run that starts the task after the one that is due.
StartTaskSkip(hs, i) ==
  /\ handles' = Append(hs, OpenHandle)
  /\ idx' = IF i < Len(keys) THEN i + 1 ELSE i
  /\ pc' = "fm_get"
  /\ UNCHANGED <<host, loads, err>>

\* A task starts: op() opens a handle and the get of its key is issued.
StartTask(hs, i) ==
  /\ handles' = Append(hs, OpenHandle)
  /\ idx' = i
  /\ pc' = "fm_get"
  /\ UNCHANGED <<host, loads, err>>

\* A completion that signals without handing the mapping to the host.
TasksCompleteNoLoad(hs) ==
  /\ handles' = CloseHandle(hs, h0)
  /\ host' = host
  /\ loads' = loads
  /\ SetTimeout(op.cb, "fm_timer")
  /\ idx' = idx

\* tasks 'complete': done(), this.load(data), setTimeout(callback, 10).
TasksComplete(hs) ==
  /\ handles' = CloseHandle(hs, h0)
  /\ host' = Load(host, data)
  /\ loads' = loads + 1
  /\ SetTimeout(op.cb, "fm_timer")
  /\ idx' = idx

\* The timer of the run: db.close(), tasks.run(true).  An empty queue is
\* complete at once.
FetchModelRun ==
  /\ pc = "fm_run"
  /\ IF keys = <<>>
     THEN TasksComplete(CloseHandle(handles, h0))
     ELSE StartTask(CloseHandle(handles, h0), 1)
  /\ UNCHANGED <<parsed, liveVars, ctorVars, writer, type, types, disk, op, pending, pos, keys, dataset, data, h0, cbCount,
                 saveEvents, fault, host0, histVars, countVars>>

\* The get of the running task returned a value: it is decoded and stored,
\* finished() closes the handle of the task, and a timer is set for next().
FetchModelGot ==
  /\ pc = "fm_get"
  /\ LET item == keys[idx]
         r == DecodeValue(disk[item.key], item.type)
     IN /\ r.ok
        /\ data' = ObjSet(data, item.key,
                          FetchDecode(host, item.key, item.type, r.v))
  /\ handles' = CloseHandle(handles, Len(handles))
  /\ pc' = "fm_next"
  /\ UNCHANGED <<parsed, liveVars, ctorVars, writer, type, types, host, disk, op, pending, pos, keys, dataset, idx, h0, obsVars,
                 host0, histVars, countVars>>

\* The get failed (the engine failed, or the text is no JSON under json):
\* the callback throws the error.
FetchModelGetError ==
  /\ pc = "fm_get"
  /\ fault' = TRUE
  /\ Raise("StorageError")
  /\ UNCHANGED <<parsed, liveVars, ctorVars, writer, type, types, host, disk, handles, op, opVars, cbCount, saveEvents, loads,
                 host0, histVars, countVars>>

\* next(): the following task starts, or the queue is complete.
FetchModelNext ==
  /\ pc = "fm_next"
  /\ IF idx < Len(keys)
     THEN StartTask(handles, idx + 1)
     ELSE TasksComplete(handles)
  /\ UNCHANGED <<parsed, liveVars, ctorVars, writer, type, types, disk, op, pending, pos, keys, dataset, data, h0, cbCount,
                 saveEvents, fault, host0, histVars, countVars>>

(***************************************************************************)
(* parse.                                                                  *)
(***************************************************************************)
\* str.split(sep)
RECURSIVE Split(_, _)
Split(str, sep) ==
  IF \E i \in 1..Len(str) : str[i] = sep
  THEN LET i == CHOOSE x \in 1..Len(str) :
                  str[x] = sep /\ \A y \in 1..(x - 1) : str[y] # sep
       IN <<SubSeq(str, 1, i - 1)>> \o Split(SubSeq(str, i + 1, Len(str)), sep)
  ELSE <<str>>

\* The name a property takes when its key is undefined.
KUndefined == <<"u", "n", "d", "e", "f", "i", "n", "e", "d">>

\* The while loop: every remaining segment is set on the same object.
RECURSIVE ParseNest(_, _, _)
ParseNest(obj, ks, value) ==
  IF ks = <<>> THEN obj
  ELSE LET newkey == Head(ks)
           cur == ObjGet(obj, newkey)
       IN ParseNest(ObjSet(obj, newkey,
                           IF Truthy(cur) THEN cur
                           ELSE IF Len(ks) = 1 THEN value ELSE JObj(<<>>)),
                    Tail(ks), value)

\* The state parse starts the loop over the dataset with.
ParseStart ==
  [currentId |-> JNull, resultset |-> <<>>, currentData |-> JObj(<<>>),
   raised |-> FALSE]

\* The callback of dataset.forEach for one item.
ParseItem(st, item) ==
  IF st.raised THEN st
  ELSE
    LET ks == Split(item.key, ".")
        id == JStr(Head(ks))
        rest == Tail(ks)
        st1 == IF st.currentId # id
               THEN [st EXCEPT
                       !.resultset = IF st.currentId # JNull
                                     THEN Append(@, st.currentData) ELSE @,
                       !.currentData = JObj(<<Prop(IdAttribute, id)>>),
                       !.currentId = id]
               ELSE st
        key == IF rest = <<>> THEN KUndefined ELSE Head(rest)
        more == IF rest = <<>> THEN <<>> ELSE Tail(rest)
        cur == ObjGet(st1.currentData, key)
        obj == IF Truthy(cur) THEN cur ELSE JObj(<<>>)
    IN IF more = <<>>
       THEN [st1 EXCEPT !.currentData = ObjSet(@, key, item.value)]
       ELSE IF obj.t # "object"
       THEN [st1 EXCEPT !.currentData = ObjSet(@, key, obj), !.raised = TRUE]
       ELSE [st1 EXCEPT !.currentData = ObjSet(@, key, ParseNest(obj, more, item.value))]

RECURSIVE ParseLoop(_, _)
ParseLoop(items, n) ==
  IF n = 0 THEN ParseStart ELSE ParseItem(ParseLoop(items, n - 1), items[n])

\* A parse that does not push the record it is building at the end.
ParseNoFlush(t, items) ==
  IF t # "store" THEN [set |-> TRUE, raised |-> FALSE, resultset |-> <<>>]
  ELSE LET st == ParseLoop(items, Len(items))
       IN [set |-> TRUE, raised |-> st.raised, dataset |-> items,
           resultset |-> st.resultset]

\* parse(dataset): the resultset it has built when it returns or raises.
Parse(t, items) ==
  IF t # "store" THEN [set |-> TRUE, raised |-> FALSE, resultset |-> <<>>]
  ELSE LET st == ParseLoop(items, Len(items))
       IN [set |-> TRUE, raised |-> st.raised, dataset |-> items,
           resultset |-> IF ~st.raised /\ st.currentData.kv # <<>>
                         THEN Append(st.resultset, st.currentData)
                         ELSE st.resultset]

\* The datasets parse is called with.
ParseKeys ==
  { <<"1", ".", "a">>, <<"1", ".", "a", ".", "b">>,
    <<"1", ".", "a", ".", "b", ".", "c">>, <<"2", ".", "a">> }
ParseValues == {JStr(<<"v">>), JStr(<<"x">>)}
ParseItems == {[key |-> k, value |-> v] : k \in ParseKeys, v \in ParseValues}
Datasets == UNION {[1..n -> ParseItems] : n \in 0..MaxItems}

CallParse(items) ==
  /\ pc = "idle"
  /\ type # "null"
  /\ nOps = 0
  /\ ~parsed.set
  /\ parsed' = Parse(type, items)
  /\ UNCHANGED <<liveVars, ctorVars, writer, type, types, host, disk, handles, pc, op,
                 opVars, obsVars, host0, histVars, countVars>>


(***************************************************************************)
(* The specification.                                                      *)
(***************************************************************************)
Next ==
  \/ Construct
  \/ \E h \in Hosts : InitProxy(h)
  \/ \E h \in Mutations(host) : Mutate(h)
  \/ EnableLiveSync
  \/ \E k \in LiveFields : \E v \in LiveValues : LiveSet(k, v)
  \/ \E k \in LiveFields : LiveRemoveField(k)
  \/ \E i \in 1..MaxRecords + 1 : LiveRemoveRecord(i)
  \/ LiveClear
  \/ \E k \in LiveFields : \E v \in SilentValues : SetSilent(k, v)
  \/ LiveDone
  \/ LiveFailed
  \/ \E cb \in BOOLEAN : Save(cb)
  \/ SaveDestroyed
  \/ SaveBatchDone
  \/ SaveBatchFailed
  \/ SaveTimer
  \/ \E i \in 1..Len(handles) : CloseDone(i)
  \/ \E cb \in BOOLEAN : FetchStore(cb)
  \/ FetchStoreData
  \/ FetchStoreError
  \/ FetchStoreEnd
  \/ FetchTimer
  \/ \E cb \in BOOLEAN : FetchModel(cb)
  \/ FetchModelKey
  \/ FetchModelKeysError
  \/ FetchModelKeysEnd
  \/ FetchModelRun
  \/ FetchModelGot
  \/ FetchModelGetError
  \/ FetchModelNext
  \/ \E ds \in Datasets : CallParse(ds)

Spec == Init /\ [][Next]_vars

(***************************************************************************)
(* The claims about save followed by fetch.                                *)
(***************************************************************************)
\* A fetch has just completed, the operation before it was a save whose
\* batch was written, and the host was attached throughout.
SavedThenFetched ==
  /\ pc = "idle"
  /\ op.name = "fetch"
  /\ Len(log) >= 2
  /\ log[Len(log) - 1].name = "save"
  /\ log[Len(log) - 1].ok
  /\ snap.set
  /\ liveOp.kind = "none"

\* The fields of a record, and the records of a collection, as sets.
FieldsOf(o) == {o.kv[i].k : i \in 1..Len(o.kv)}
Occurrences(xs, r) == Cardinality({i \in 1..Len(xs) : xs[i] = r})

IsScalar(v) ==
  \/ v.t \in {"boolean", "string", "null"}
  \/ v.t = "number" /\ "nan" \notin DOMAIN v /\ v.e = 0

\* C1: in record mode, a record whose fields are declared String, Number or
\* Boolean and held only boolean, integer, string or null values when it
\* was saved has, after save() and then fetch(), every field at the value
\* and type it was saved with, whatever was changed in memory in between;
\* null reads back as null, the string '#NIL' as '#NIL'.
C1_ScalarRoundTrip ==
  (/\ SavedThenFetched
   /\ type = "model"
   /\ \A k \in FieldsOf(snap.data) :
        k \in {FStr, FNum, FFlag} /\ IsScalar(ObjGet(snap.data, k)))
  => \A k \in FieldsOf(snap.data) : ObjGet(host.data, k) = ObjGet(snap.data, k)

\* C2: in collection mode, after save() and then fetch() the collection
\* holds exactly the records that were saved, sub-records included.
C2_StoreRoundTrip ==
  (SavedThenFetched /\ type = "store")
  => /\ Len(host.data.xs) = Len(snap.data.xs)
     /\ \A i \in 1..Len(snap.data.xs) :
          Occurrences(host.data.xs, snap.data.xs[i])
            = Occurrences(snap.data.xs, snap.data.xs[i])

\* The keys format gives the records of a collection are pairwise distinct.
DistinctKeys(d) ==
  \A i, j \in 1..Len(d.xs) :
    i # j => RecordKey(d.xs[i], i - 1) # RecordKey(d.xs[j], j - 1)

\* C3: a collection written by save() and read back in key order by fetch()
\* holds its records in the order they were inserted, identities preserved;
\* stated here for the collections whose records take pairwise distinct keys.
C3_StoreOrder ==
  (SavedThenFetched /\ type = "store" /\ DistinctKeys(snap.data))
  => host.data.xs = snap.data.xs

\* C4: in record mode, after save() and then fetch() a field that held an
\* array is the same array again, and a field that held an object is an
\* object equal to the one saved.
C4_StructuredRoundTrip ==
  (SavedThenFetched /\ type = "model")
  => \A k \in FieldsOf(snap.data) :
       ObjGet(snap.data, k).t \in {"array", "object"}
         => ObjGet(host.data, k) = ObjGet(snap.data, k)

(***************************************************************************)
(* The claims about one operation.                                         *)
(***************************************************************************)
\* C5: two save() calls in succession, the host not changed in memory in
\* between and both batches written, leave the storage location with the
\* same content after the second as after the first, whatever it held.
C5_SaveIdempotent ==
  (/\ pc = "idle"
   /\ op.name = "save"
   /\ Len(log) >= 2
   /\ log[Len(log) - 1].name = "save"
   /\ log[Len(log) - 1].ok
   /\ log[Len(log)].ok
   /\ ~log[Len(log)].mutated)
  => /\ prev.set
     /\ snap.disk = prev.disk
     /\ disk = snap.disk

\* Two saves of a host with data completed in succession, nothing changed
\* in between, and the storage holds what the first one left.
C5_Witness ==
  /\ pc = "idle"
  /\ op.name = "save"
  /\ Len(log) = 2
  /\ log[1].name = "save" /\ log[1].ok
  /\ log[2].ok /\ ~log[2].mutated
  /\ prev.set /\ prev.disk # EmptyDisk
  /\ snap.disk = prev.disk

\* C6: when the batch of a save() fails, neither the 'save' event is
\* emitted nor the callback invoked.
C6_FailedSaveNotSignalled ==
  (op.name = "save" /\ fault) => (saveEvents = 0 /\ cbCount = 0)

\* C7: when the key or value stream of a fetch() emits an error, or a get
\* of a record-mode fetch fails, the error is raised, load or reload is not
\* invoked, the host is as it was when fetch was called, and the callback
\* is not invoked.
C7_FailedFetchLeavesHost ==
  (op.name = "fetch" /\ fault)
  => /\ pc = "raised"
     /\ loads = 0
     /\ host = host0
     /\ cbCount = 0

\* A fetch failed after part of the storage had been read.
C7_Witness ==
  /\ op.name = "fetch"
  /\ fault
  /\ pc = "raised"
  /\ Len(dataset) + Len(data.kv) > 0
  /\ host = host0

\* C8: a save(callback) or fetch(callback) none of whose storage calls
\* failed raises no error, never invokes its callback twice, and has invoked
\* it once when it completes.
C8_CallbackOnce ==
  (op.name \in {"save", "fetch"} /\ op.cb /\ ~fault)
  => /\ pc # "raised"
     /\ cbCount <= 1
     /\ (pc = "idle" => cbCount = 1)

\* C9: a save() or fetch() called without a callback raises no error for
\* the callback that is missing.
C9_CallbackOptional ==
  (op.name \in {"save", "fetch"} /\ ~op.cb) => err # CallbackError

\* C10, as stated: once init has set the type, no step changes it, a
\* further init included.
C10_TypeNeverChanges == [][type # "null" => type' = type]_vars

\* C10, amended: every init sets the type to 'store' exactly when the host
\* it attaches is a collection and to 'model' otherwise, and no step other
\* than an init changes the type.
C10_TypeFollowsInit ==
  [][IF types' # types
     THEN /\ type' \in {"store", "model"}
          /\ type' = "store" <=> host'.kind = "store"
     ELSE type' = type]_vars

\* A second init has attached a record to a proxy that was attached to a
\* collection, and a fetch into the record has completed since.
C10_Witness ==
  /\ types = <<"store", "model">>
  /\ type = "model"
  /\ host.kind = "model"
  /\ pc = "idle"
  /\ op.name = "fetch"

(***************************************************************************)
(* The claims about construction and the mode of a fetch.                  *)
(***************************************************************************)
\* The storage location a constructor argument names, if it names one.
HasLocation(c) ==
  \/ c.t = "string" /\ c.s # <<>>
  \/ /\ c.t = "object"
     /\ \E i \in 1..Len(c.kv) :
          c.kv[i].k = KDirectory /\ c.kv[i].v.t = "string" /\ c.kv[i].v.s # <<>>
Location(c) ==
  IF c.t = "string" THEN c.s
  ELSE c.kv[CHOOSE i \in 1..Len(c.kv) : c.kv[i].k = KDirectory].v.s

\* C11: the constructor called with no storage location (no config, an
\* empty string, an object without a directory) raises an error and leaves
\* no proxy to attach or operate; called with a string or with an object
\* that names a directory it yields a proxy on that directory, whether or
\* not the directory exists.
C11_Constructor ==
  [][/\ pc = "new" =>
          IF HasLocation(config)
          THEN pc' = "idle" /\ directory' = Location(config) /\ err' = "none"
          ELSE pc' = "raised" /\ directory' = "none" /\ err' = ConfigError
     /\ directory' = "none" => type' = "null" /\ pc' \in {"new", "raised"}]_vars

\* A proxy was constructed on a directory that does not exist.
C11_Witness ==
  /\ pc = "idle"
  /\ directory = Dir
  /\ ~exists
  /\ type = "null"

\* C12: a fetch of a storage location that holds what a save in the other
\* mode wrote never completes with load or reload invoked and the callback
\* run.
C12_ModeSwitchRejected ==
  (/\ op.name = "fetch"
   /\ writer \notin {"none", type}
   /\ disk # EmptyDisk)
  => ~(pc = "idle" /\ loads = 1 /\ cbCount = 1)

\* A fetch that ran after a live-synced change completed without an error.
FetchedAfterLive(kind) ==
  /\ pc = "idle"
  /\ op.name = "fetch"
  /\ liveOp.kind = kind
  /\ liveOp.done
  /\ log # <<>>
  /\ log[Len(log)].name = "fetch"
  /\ log[Len(log)].ok

\* C13: with live sync enabled on a record, after a field was set to a new
\* value a following fetch() leaves the field at that value, whatever
\* was silently changed in memory in between.
C13_LiveUpdateRestored ==
  FetchedAfterLive("put") => ObjGet(host.data, liveOp.field) = liveOp.value

\* C14: with live sync enabled, once the removal of a field from a record,
\* of a record from a collection, or of every record of a collection has
\* been written, storage holds none of the removed keys: a get for any of
\* them finds nothing.
C14_LiveDeleteRemovesKeys ==
  (liveOp.kind = "del" /\ liveOp.done)
  => \A k \in liveOp.keys : k \notin DOMAIN disk

\* A field that was in storage has been removed from a live-synced record.
C14_Witness ==
  /\ type = "model"
  /\ pc = "idle"
  /\ liveOp.kind = "del"
  /\ liveOp.done
  /\ liveOp.had = liveOp.keys

\* obj[path[1]][path[2]]...
RECURSIVE PathGet(_, _)
PathGet(obj, path) ==
  IF path = <<>> THEN obj ELSE PathGet(ObjGet(obj, Head(path)), Tail(path))

IsPrefix(p, q) == Len(p) <= Len(q) /\ SubSeq(q, 1, Len(p)) = p

\* The keys of a dataset are the paths of leaves: pairwise distinct, and
\* none leads through another.
LeafKeys(ds) ==
  \A i, j \in 1..Len(ds) :
    i # j => ~IsPrefix(Split(ds[i].key, "."), Split(ds[j].key, "."))

\* C15: parse places the value of every key <id>.a.b.c, of three or more
\* segments after the identity, at the nested position a.b.c of the record
\* <id> it reconstructs.
C15_NestedPath ==
  (parsed.set /\ type = "store" /\ ~parsed.raised /\ LeafKeys(parsed.dataset))
  => \A i \in 1..Len(parsed.dataset) :
       LET ks == Split(parsed.dataset[i].key, ".")
       IN Len(ks) >= 4 =>
            \E n \in 1..Len(parsed.resultset) :
              /\ ObjGet(parsed.resultset[n], IdAttribute) = JStr(Head(ks))
              /\ PathGet(parsed.resultset[n], Tail(ks)) = parsed.dataset[i].value

\* C16: the steps of one save() happen in a fixed order.  The destroy
\* leaves the location empty, one handle is opened and one batch holding
\* every flattened put of the host is issued; when the batch has completed
\* the close of that handle is issued; only then does the timer emit
\* 'save' once and invoke the callback, and neither happens earlier.
C16_SaveOrder ==
  [][/\ (pc = "save_destroy" /\ pc' # pc)
          => /\ pc' = "save_batch"
             /\ disk' = EmptyDisk
             /\ handles' = <<OpenHandle>>
             /\ pending' = Format(host.data)
     /\ (pc = "save_batch" /\ pc' # pc)
          => /\ pc' = "save_timer"
             /\ handles'[1].closes = 1
             /\ disk' \in {disk, BatchWrite(EmptyDisk, pending, Len(pending))}
             /\ cbCount' = 0 /\ saveEvents' = 0
     /\ (pc = "save_timer" /\ pc' # pc)
          => /\ pc' = "idle"
             /\ Len(handles) = 1 /\ handles[1].closes = 1
             /\ saveEvents' = 1
             /\ cbCount' = IF op.cb THEN 1 ELSE 0
             /\ disk' = disk
     /\ (op'.name = "save" /\ (cbCount' # cbCount \/ saveEvents' # saveEvents))
          => pc \in {"idle", "save_timer"}]_vars

\* A save of a non-empty host over a non-empty location has run to its callback.
C16_Witness ==
  /\ pc = "idle"
  /\ op.name = "save"
  /\ op.cb
  /\ cbCount = 1
  /\ saveEvents = 1
  /\ handles[1].closes = 1
  /\ snap.set
  /\ prev.set
  /\ snap.disk # EmptyDisk
  /\ snap.disk # prev.disk

\* The keys format gives the records of a collection.
RecordKeys(d) == {RecordKey(d.xs[i], i - 1) : i \in 1..Len(d.xs)}

\* C17: when a collection-mode save() has completed without a storage
\* error, the keys in storage are exactly the keys of the records the
\* collection holds; a record an earlier save stored and that was removed
\* since has no key left.
C17_StoreKeysAfterSave ==
  (/\ pc = "idle"
   /\ op.name = "save"
   /\ type = "store"
   /\ log # <<>>
   /\ log[Len(log)].name = "save"
   /\ log[Len(log)].ok)
  => DOMAIN disk = RecordKeys(host.data)

\* A second save of a collection from which a stored record was removed.
C17_Witness ==
  /\ pc = "idle"
  /\ op.name = "save"
  /\ type = "store"
  /\ Len(log) = 2
  /\ log[1].name = "save" /\ log[1].ok
  /\ log[2].name = "save" /\ log[2].ok
  /\ prev.set
  /\ \E k \in DOMAIN prev.disk : k \notin DOMAIN disk
  /\ disk # EmptyDisk

\* C18: in record mode save() does not clear the storage location before
\* it writes: a key that is in storage and is not one of the fields of the
\* record is still there, with its value, when the batch is issued (the
\* batch only puts the fields, so nothing else could bring it back).
C18_NoPreClear ==
  [][(type = "model" /\ pc = "save_destroy" /\ pc' = "save_batch")
       => \A k \in DOMAIN disk :
            k \notin {Trim(f) : f \in FieldsOf(host.data)}
              => k \in DOMAIN disk' /\ disk'[k] = disk[k]]_vars

\* The values the value stream of the location emits, in emission order.
StreamValues(d) ==
  [i \in 1..Len(StreamKeys(d)) |-> DecodeValue(d[StreamKeys(d)[i]], "json").v]

\* C19: a collection-mode fetch() invokes reload at most once and not while
\* the stream is running; when it has, the stream had ended, the host holds
\* exactly the values the stream emitted, in emission order, and nothing of
\* what it held before; the callback is scheduled and run only after that.
C19_ReloadOnce ==
  (op.name = "fetch" /\ type = "store")
  => /\ loads <= 1
     /\ pc = "fs_stream" => loads = 0
     /\ (pc = "fs_timer" \/ cbCount > 0) => loads = 1
     /\ loads = 1 => /\ pos = Len(StreamKeys(disk))
                     /\ dataset = StreamValues(disk)
                     /\ host.data = JArr(dataset)

\* A fetch replaced two records held in memory by the two stored ones.
C19_Witness ==
  /\ pc = "idle"
  /\ op.name = "fetch"
  /\ type = "store"
  /\ loads = 1
  /\ cbCount = 1
  /\ Len(dataset) = 2
  /\ dataset[1] # dataset[2]
  /\ \E i \in 1..Len(host0.data.xs) :
       \A n \in 1..Len(host.data.xs) : host.data.xs[n] # host0.data.xs[i]

\* The handles of the tasks whose get has not completed (finished() not called).
PendingGets == {i \in 2..Len(handles) : handles[i].closes = 0}

\* C20: in a record-mode fetch() the gets are issued one at a time in the
\* order the keys were enumerated.  When the get of task idx is pending,
\* the values of exactly the idx - 1 keys before it are stored, in that
\* order, and the handles of their tasks were closed; a task only starts
\* as the successor of the task before it; never is more than one get
\* pending.
C20_GetsOneAtATime ==
  (op.name = "fetch" /\ type = "model" /\ pc \in {"fm_get", "fm_next"})
  => /\ idx \in 1..Len(keys)
     /\ \A i \in 1..Len(keys) : keys[i].key = StreamKeys(disk)[i]
     /\ Len(handles) = idx + 1
     /\ ObjKeys(data) = [i \in 1..(IF pc = "fm_get" THEN idx - 1 ELSE idx) |-> keys[i].key]
     /\ PendingGets = IF pc = "fm_get" THEN {idx + 1} ELSE {}

\* The get of the second key is pending; the value of the first is stored.
C20_Witness ==
  /\ op.name = "fetch"
  /\ type = "model"
  /\ pc = "fm_get"
  /\ idx = 2
  /\ Len(data.kv) = 1
  /\ handles[2].closes = 1

\* C21: a record-mode fetch() invokes load at most once and not before the
\* get of every enumerated key has completed; when it has, the mapping it
\* was given holds exactly the keys enumerated from storage; the timer of
\* the callback and the callback come only after that load.
C21_LoadOnce ==
  (op.name = "fetch" /\ type = "model")
  => /\ loads <= 1
     /\ pc \in {"fm_keys", "fm_run", "fm_get", "fm_next"} => loads = 0
     /\ (pc = "fm_timer" \/ cbCount > 0) => loads = 1
     /\ loads = 1 => /\ Len(keys) = Len(StreamKeys(disk))
                     /\ ObjKeys(data) = StreamKeys(disk)
                     /\ PendingGets = {}

\* A fetch of two stored keys has loaded the mapping and run its callback.
C21_Witness ==
  /\ pc = "idle"
  /\ op.name = "fetch"
  /\ type = "model"
  /\ loads = 1
  /\ cbCount = 1
  /\ Len(data.kv) = 2

\* C22: every handle a save() or fetch() opened has close called on it at
\* most once, and none of them is open when the callback has run (while
\* the destroy of a save is pending, the operation has opened no handle yet).
C22_HandlesClosedOnce ==
  (op.name \in {"save", "fetch"} /\ op.cb /\ pc # "save_destroy")
  => /\ \A i \in 1..Len(handles) : handles[i].closes <= 1
     /\ cbCount >= 1 => \A i \in 1..Len(handles) : handles[i].st # "open"

\* The handles that hold the storage location: opened and not yet closed,
\* a close that was issued and has not completed included.
HeldHandles == {i \in 1..Len(handles) : handles[i].st # "closed"}

\* C23: during a record-mode fetch() at most one handle holds the storage
\* location at any time: the handle of the key enumeration is closed, its
\* close completed, before the handle of the first get is opened, and so
\* is the handle of each get before the next.
C23_OneHandleOpen ==
  (op.name = "fetch" /\ type = "model") => Cardinality(HeldHandles) <= 1

\* C24: the batch a collection-mode save() issues holds pairwise distinct
\* keys, one per record, so that when it is written storage holds as many
\* entries as the collection holds records.
C24_DistinctBatchKeys ==
  (op.name = "save" /\ type = "store" /\ pc \in {"save_batch", "save_timer"})
  => /\ Len(pending) = Len(host.data.xs)
     /\ \A i, j \in 1..Len(pending) : i # j => pending[i].key # pending[j].key
     /\ (pc = "save_timer" /\ ~fault) => Cardinality(DOMAIN disk) = Len(host.data.xs)

\* C25: the value a record-mode fetch() decodes for a key typed string,
\* number or boolean is null exactly when the stored text is the sentinel
\* '#NIL'; a text that only contains it is not turned into null.
C25_NullIffSentinel ==
  (/\ op.name = "fetch"
   /\ type = "model"
   /\ pc = "fm_next"
   /\ keys[idx].type \in {"string", "number", "boolean"})
  => (ObjGet(data, keys[idx].key) = JNull <=> disk[keys[idx].key] = Sentinel)

\* The encoding tag the declared type of a field stands for.
DeclaredTag(f) ==
  IF f \in JoinNames THEN "json"
  ELSE IF FieldCtor(f) \in {"Array", "Object"} THEN "json"
  ELSE LowerName(FieldCtor(f))

\* The fields of the saved record that held null.
NullFields(d) == {f \in FieldsOf(d) : ObjGet(d, f) = JNull}

\* C26: a record-mode save() writes a null field as the sentinel, tagged
\* with the declared scalar type of the field, or json for a field declared
\* Object or Array; after save() and then fetch() every field that was
\* null is null again, whatever its declared type.
C26_NullRoundTrip ==
  /\ (op.name = "save" /\ type = "model" /\ pc = "save_batch")
       => \A i \in 1..Len(pending) :
            host.data.kv[i].v = JNull
              => /\ pending[i].value = JStr(Sentinel)
                 /\ pending[i].valueEncoding = DeclaredTag(host.data.kv[i].k)
  /\ (SavedThenFetched /\ type = "model")
       => \A f \in NullFields(snap.data) : ObjGet(host.data, f) = JNull

\* C27: getFieldType gives every key enumerated from storage one of the
\* tags string, number, boolean and json, and raises no error for a key
\* that is not a declared field of the host.
C27_FieldTypeTags ==
  (op.name = "fetch" /\ type = "model")
  => /\ err # NoFieldError
     /\ pc \in {"fm_run", "fm_get", "fm_next", "fm_timer", "idle"}
          => \A i \in 1..Len(keys) :
               keys[i].type \in {"string", "number", "boolean", "json"}

\* The paths of the leaves of a record: a sub-record adds a segment.
RECURSIVE LeafPaths(_)
LeafPaths(o) ==
  UNION {IF o.kv[i].v.t = "object"
         THEN {<<o.kv[i].k>> \o q : q \in LeafPaths(o.kv[i].v)}
         ELSE {<<o.kv[i].k>>} : i \in 1..Len(o.kv)}

\* path.join('.')
RECURSIVE JoinPath(_)
JoinPath(path) ==
  IF Len(path) = 1 THEN path[1] ELSE path[1] \o <<".">> \o JoinPath(Tail(path))

\* C28: the batch a collection-mode save() issues holds, for every record
\* and every field of it, a put keyed '<identity>.<field path>' with the
\* value of that field, the identity being the identity value of the record
\* or else its ordinal index; a sub-record adds a path segment.
C28_StoreFormatFlattens ==
  (op.name = "save" /\ type = "store" /\ pc = "save_batch")
  => \A i \in 1..Len(host.data.xs) :
       \A path \in LeafPaths(host.data.xs[i]) :
         path # <<IdAttribute>> =>
           \E n \in 1..Len(pending) :
             /\ pending[n].key = RecordKey(host.data.xs[i], i - 1) \o <<".">> \o JoinPath(path)
             /\ pending[n].value = PathGet(host.data.xs[i], path)

\* The leading key segments of a dataset, one per maximal run of
\* consecutive entries that share it.
RECURSIVE Runs(_, _)
Runs(ds, n) ==
  IF n = 0 THEN <<>>
  ELSE LET id == Head(Split(ds[n].key, "."))
       IN IF n > 1 /\ Head(Split(ds[n - 1].key, ".")) = id
          THEN Runs(ds, n - 1)
          ELSE Append(Runs(ds, n - 1), id)

====
